---- MODULE Spec2Model ----
(***************************************************************************)
(* Verification model of the Pi-Droid repository.                          *)
(*                                                                         *)
(*   relais.py            servo controller: trigger threads, per-servo     *)
(*                        locks, cleanup and cleanup_and_wait              *)
(*   cam.py               monitoring loop with the debounced state tracker *)
(*   Server.py            CameraThread: the shared latest-frame slot       *)
(*   idea.py              next_digit, get_timeout                          *)
(*   hid_type_numbers.py  HIDTyper.type_numbers                            *)
(*   idea.py              clear_cache, wrong_code_detected, check_swipe,   *)
(*                        driven by the automation controller              *)
(*   Server.py            the process state and its control endpoints      *)
(*   calibrate.py         the mouse selection and the region save keys     *)
(*                                                                         *)
(* Each part has its own specification (SpecRelais, SpecMonitor, ...) over *)
(* the one list of variables; a part's specification leaves the variables  *)
(* of the other parts unchanged.                                           *)
(***************************************************************************)
EXTENDS Integers, Sequences, FiniteSets, TLC

\* ------------------------------------------------------------------ bounds
\* worker threads that may be created in one run of the servo model
MaxThreads == 2
\* API calls (setup, set_rest_angle, UP/DOWN/PWR, cleanup, cleanup_and_wait)
\* made in one run of the servo model
MaxCalls == 3

\* ------------------------------------------------------------ relais.py
VARIABLES
    gpio_initialized,   \* _gpio_initialized
    pins,               \* _pins: servo key -> BCM pin
    servos,             \* _servos: servo key -> NoServo or the servo's PWM state
    REST_ANGLE,         \* the module global _REST_ANGLE
    locks,              \* _locks: servo key -> the threads holding the lock
    active_threads,     \* _active_threads
    wk,                 \* the worker threads: position and arguments
    caller,             \* the threads calling the module's API
    ncalls              \* API calls made so far

relaisVars == <<gpio_initialized, pins, servos, REST_ANGLE, locks,
                active_threads, wk, caller, ncalls>>

\* --------------------------------------------------- cam.py: main()
VARIABLES
    mon_pc,             \* "start", "running", or how main() ended
    STABLE_FRAMES,      \* the configured window size (cam.py sets 3)
    state_history,      \* deque(maxlen=STABLE_FRAMES)
    last_stable_state,
    last_ocr_text,
    pushed,             \* every cur_state appended so far, in order
    events              \* the state_change notifications, in order

monVars == <<mon_pc, STABLE_FRAMES, state_history, last_stable_state,
             last_ocr_text, pushed, events>>

\* ------------------------------------------- Server.py: CameraThread
VARIABLES
    cap,                \* self.cap: "opened", "unopened" or "released"
    cam_running,        \* self.running
    cam_frame,          \* self.frame
    cam_lock,           \* self.lock: the threads holding it
    reader,             \* the _reader thread: position and locals
    consumer,           \* the threads calling get_frame()
    stopper,            \* the thread calling stop()
    ncaptures,          \* successful cap.read() calls so far
    last_stored         \* the frame of the last successful capture stored

camVars == <<cap, cam_running, cam_frame, cam_lock, reader, consumer, stopper,
             ncaptures, last_stored>>

\* ------------------------------------------------ idea.py: next_digit
VARIABLES
    dg_count,           \* the digit length asked for
    dg_file,            \* digits/{count}digit.txt: absent, or its lines
    dg_start,           \* the offset the current iteration started from
    dg_line,            \* the offset of the next request
    dg_served,          \* the results of the current iteration, in order
    dg_probe            \* the last single request: its offset and result

digVars == <<dg_count, dg_file, dg_start, dg_line, dg_served, dg_probe>>

\* --------------------------------- hid_type_numbers.py: type_numbers
VARIABLES
    hid_device_exists,  \* self.device.exists()
    hid_pc,             \* "idle", "typing", "enter" or "done"
    hid_s,              \* the argument s
    hid_press_enter,    \* the argument press_enter
    hid_i,              \* characters of s typed so far
    hid_reports,        \* the reports written to the device, in order
    hid_outcome         \* how the call ended

hidVars == <<hid_device_exists, hid_pc, hid_s, hid_press_enter, hid_i,
             hid_reports, hid_outcome>>

\* ------------------------------------------------ idea.py: get_timeout
VARIABLES
    ocr_text,           \* what cam.get_text('Info_text') returned
    timeout_result      \* what get_timeout() returned or raised

ocrVars == <<ocr_text, timeout_result>>

\* ------------------------------------------------ idea.py: clear_cache
VARIABLES
    rc_issued,          \* the steps of clear_cache() executed so far, in order
    rc_outcome          \* "idle", "running", "returned" or the exception raised

recVars == <<rc_issued, rc_outcome>>

\* ------------------------------------------- the automation controller
VARIABLES
    ctl_pc,             \* the controller's state
    ctl_files,          \* digits/{count}digit.txt for every length
    ctl_count,          \* the length of the next candidate request
    ctl_offset,         \* the line offset of the next candidate request
    ctl_requests,       \* the candidate requests made so far, with their results
    ctl_verdict,        \* the verdict on the candidate fetched last
    ctl_recoveries,     \* recovery sequences invoked since the last fetch
    ctl_obs             \* the last observation: what was read and concluded

ctlVars == <<ctl_pc, ctl_files, ctl_count, ctl_offset, ctl_requests,
             ctl_verdict, ctl_recoveries, ctl_obs>>

\* ------------------------------------------- Server.py: process state
VARIABLES
    state,              \* the state dict
    st_log              \* the control requests handled so far, in order

statusVars == <<state, st_log>>

\* ------------------------------------------------------- calibrate.py
VARIABLES
    sel,                \* the selection rectangle (x, y, w, h), or None
    dragging,           \* the left button is held
    pt1,                \* where the button went down, or None
    cfg,                \* the configuration as last saved to config.json
    cal_pc,             \* main(): "loop" | "done"
    cal_saves           \* number of save_config calls so far

calVars == <<sel, dragging, pt1, cfg, cal_pc, cal_saves>>

vars == <<relaisVars, monVars, camVars, digVars, hidVars, ocrVars, recVars,
          ctlVars, statusVars, calVars>>

NotRelais == <<monVars, camVars, digVars, hidVars, ocrVars, recVars, ctlVars,
               statusVars, calVars>>
NotMonitor == <<relaisVars, camVars, digVars, hidVars, ocrVars, recVars,
                ctlVars, statusVars, calVars>>
NotCamera == <<relaisVars, monVars, digVars, hidVars, ocrVars, recVars,
               ctlVars, statusVars, calVars>>
NotDigits == <<relaisVars, monVars, camVars, hidVars, ocrVars, recVars,
               ctlVars, statusVars, calVars>>
NotHid == <<relaisVars, monVars, camVars, digVars, ocrVars, recVars, ctlVars,
            statusVars, calVars>>
NotOcr == <<relaisVars, monVars, camVars, digVars, hidVars, recVars, ctlVars,
            statusVars, calVars>>
NotController == <<monVars, camVars, digVars, hidVars, ocrVars, statusVars,
                   calVars>>
NotStatus == <<relaisVars, monVars, camVars, digVars, hidVars, ocrVars,
               recVars, ctlVars, calVars>>
NotCalibrate == <<relaisVars, monVars, camVars, digVars, hidVars, ocrVars,
                  recVars, ctlVars, statusVars>>

ServoKeys == {"UP", "DOWN", "PWR"}
Callers == {"c1", "c2"}
ThreadIds == 1..MaxThreads
None == "None"
\* the entry of _servos for a servo that is not configured (None)
NoServo == [pwm |-> "NoServo", angle |-> 0]

\* _DEFAULT_PINS
DefaultPins == [k \in ServoKeys |->
                  CASE k = "UP" -> "17" [] k = "DOWN" -> "27" [] OTHER -> "22"]

\* the value of _REST_ANGLE when the def statements of _press_blocking and
\* _start_press_thread are executed: their rest_angle default is bound then
RestAngleAtImport == 90

\* press_angle defaults of UP, DOWN and PWR
DefaultPressAngle(k) == IF k = "DOWN" THEN 120 ELSE 60

\* _Servo.angle_to_duty clamps the angle to 0..180 before the duty is computed
ClampAngle(a) == IF a < 0 THEN 0 ELSE IF a > 180 THEN 180 ELSE a

\* _Servo.move_to_angle on the servo object of key k
MoveToAngle(sv, k, a) ==
    IF sv[k] = NoServo THEN sv
    ELSE [sv EXCEPT ![k] = [@ EXCEPT !.angle = ClampAngle(a)]]

\* _Servo.stop on every configured servo
StopAll(sv) ==
    [k \in ServoKeys |->
        IF sv[k] = NoServo THEN NoServo ELSE [sv[k] EXCEPT !.pwm = "stopped"]]

\* the pin arguments a caller may pass to setup()
NoArgs == [k \in ServoKeys |-> None]
SetupArgs == {NoArgs, [NoArgs EXCEPT !["UP"] = "5"]}

\* the angles a caller may pass to set_rest_angle()
RestAngleInputs == {45, 200}

\* setup(): returns at once when initialized; a pin argument of None keeps
\* the pin _pins already holds
SetupPins(args) ==
    [k \in ServoKeys |-> IF args[k] # None THEN args[k] ELSE pins[k]]

SetupServos(p) ==
    [k \in ServoKeys |->
        IF p[k] # None THEN [pwm |-> "running", angle |-> ClampAngle(REST_ANGLE)]
        ELSE NoServo]

\* the state after setup(args), as <<_gpio_initialized, _pins, _servos>>
SetupResult(args) ==
    IF gpio_initialized THEN <<gpio_initialized, pins, servos>>
    ELSE <<TRUE, SetupPins(args), SetupServos(SetupPins(args))>>

\* thr: the Thread object the call created, as a set of at most one thread
IdleCaller == [pc |-> "idle", thr |-> {}, joinset |-> {}, ret |-> None]
Unborn == [pc |-> "unborn", key |-> None, press |-> 0, rest |-> 0]

InitRelais ==
    /\ gpio_initialized = FALSE
    /\ pins = DefaultPins
    /\ servos = [k \in ServoKeys |-> NoServo]
    /\ REST_ANGLE = 90
    /\ locks = [k \in ServoKeys |-> {}]
    /\ active_threads = {}
    /\ wk = [t \in ThreadIds |-> Unborn]
    /\ caller = [c \in Callers |-> IdleCaller]
    /\ ncalls = 0

\* caller c enters an API function
Call(c) ==
    /\ caller[c].pc = "idle"
    /\ ncalls < MaxCalls
    /\ ncalls' = ncalls + 1

\* the next thread object: threads are numbered in creation order
NextThread == CHOOSE t \in ThreadIds : wk[t].pc = "unborn" /\
                 \A u \in ThreadIds : u < t => wk[u].pc # "unborn"

\* a press sequence is executing: the worker is inside `with lock:`
InPress(t) == wk[t].pc \in {"press", "rest1", "pulse", "rest2"}

\* setup(up_pin, down_pin, pwr_pin) called from outside
Setup(c, args) ==
    /\ Call(c)
    /\ gpio_initialized' = SetupResult(args)[1]
    /\ pins' = SetupResult(args)[2]
    /\ servos' = SetupResult(args)[3]
    /\ caller' = [caller EXCEPT ![c] = [IdleCaller EXCEPT !.ret = None]]
    /\ UNCHANGED <<REST_ANGLE, locks, active_threads, wk>>
    /\ UNCHANGED NotRelais

\* set_rest_angle(angle)
SetRestAngle(c, a) ==
    /\ Call(c)
    /\ REST_ANGLE' = ClampAngle(a)
    /\ caller' = [caller EXCEPT ![c] = [IdleCaller EXCEPT !.ret = None]]
    /\ UNCHANGED <<gpio_initialized, pins, servos, locks, active_threads, wk>>
    /\ UNCHANGED NotRelais

\* _start_press_thread(k) called by c, up to _active_threads.add(t)
StartPressThread(c, k) ==
    /\ Call(c)
    /\ \E t \in ThreadIds : wk[t].pc = "unborn"
    /\ gpio_initialized' = SetupResult(NoArgs)[1]
    /\ pins' = SetupResult(NoArgs)[2]
    /\ servos' = SetupResult(NoArgs)[3]
    /\ IF servos'[k] = NoServo
       THEN /\ caller' = [caller EXCEPT ![c] = [IdleCaller EXCEPT !.ret = "False"]]
            /\ UNCHANGED <<active_threads, wk>>
       ELSE /\ wk' = [wk EXCEPT ![NextThread] =
                        [pc |-> "created", key |-> k,
                         press |-> DefaultPressAngle(k),
                         rest |-> RestAngleAtImport]]
            /\ active_threads' = active_threads \cup {NextThread}
            /\ caller' = [caller EXCEPT ![c] =
                            [IdleCaller EXCEPT !.pc = "t_start", !.thr = {NextThread}]]
    /\ UNCHANGED <<REST_ANGLE, locks>>

\* UP(), DOWN(), PWR() called from outside
TriggerBegin(c, k) ==
    /\ StartPressThread(c, k)
    /\ UNCHANGED NotRelais

\* a variant that starts the thread only while the servo's lock is free
TriggerStartUnderLock(c) ==
    /\ caller[c].pc = "t_start"
    /\ \A t \in caller[c].thr : locks[wk[t].key] = {}
    /\ wk' = [t \in ThreadIds |->
                IF t \in caller[c].thr THEN [wk[t] EXCEPT !.pc = "begin"] ELSE wk[t]]
    /\ caller' = [caller EXCEPT ![c] =
                    [IdleCaller EXCEPT !.ret = "Thread", !.thr = caller[c].thr]]
    /\ UNCHANGED <<ncalls, gpio_initialized, pins, servos, REST_ANGLE, locks, active_threads>>
    /\ UNCHANGED NotRelais

\* _start_press_thread: t.start(); return t
TriggerStart(c) ==
    /\ caller[c].pc = "t_start"
    /\ wk' = [t \in ThreadIds |->
                IF t \in caller[c].thr THEN [wk[t] EXCEPT !.pc = "begin"] ELSE wk[t]]
    /\ caller' = [caller EXCEPT ![c] =
                    [IdleCaller EXCEPT !.ret = "Thread", !.thr = caller[c].thr]]
    /\ UNCHANGED <<ncalls, gpio_initialized, pins, servos, REST_ANGLE, locks, active_threads>>
    /\ UNCHANGED NotRelais

\* cleanup(): stop every servo's PWM
CleanupStop(c) ==
    /\ Call(c)
    /\ servos' = StopAll(servos)
    /\ caller' = [caller EXCEPT ![c] = [IdleCaller EXCEPT !.pc = "cl_gpio"]]
    /\ UNCHANGED <<gpio_initialized, pins, REST_ANGLE, locks, active_threads, wk>>
    /\ UNCHANGED NotRelais

\* cleanup(): GPIO.cleanup(); _gpio_initialized = False
CleanupGpio(c) ==
    /\ caller[c].pc = "cl_gpio"
    /\ gpio_initialized' = FALSE
    /\ caller' = [caller EXCEPT ![c] = IdleCaller]
    /\ UNCHANGED <<ncalls, pins, servos, REST_ANGLE, locks, active_threads, wk>>
    /\ UNCHANGED NotRelais

\* cleanup_and_wait(): threads = list(_active_threads)
CwSnapshot(c) ==
    /\ Call(c)
    /\ caller' = [caller EXCEPT ![c] =
                    [IdleCaller EXCEPT !.pc = "cw_join", !.joinset = active_threads]]
    /\ UNCHANGED <<gpio_initialized, pins, servos, REST_ANGLE, locks, active_threads, wk>>
    /\ UNCHANGED NotRelais

\* t.join(timeout=None) returns when thread t has terminated; on a thread that
\* was not started yet it raises RuntimeError, which the loop swallows
JoinReturns(t) == wk[t].pc \in {"done", "created"}

\* cleanup_and_wait(): one t.join() of the loop
CwJoin(c) ==
    /\ caller[c].pc = "cw_join"
    /\ \E t \in caller[c].joinset :
          /\ JoinReturns(t)
          /\ caller' = [caller EXCEPT ![c].joinset = @ \ {t}]
    /\ UNCHANGED <<ncalls, gpio_initialized, pins, servos, REST_ANGLE, locks, active_threads, wk>>
    /\ UNCHANGED NotRelais

\* cleanup_and_wait(): after the joins, stop every servo's PWM
CwStop(c) ==
    /\ caller[c].pc = "cw_join"
    /\ caller[c].joinset = {}
    /\ servos' = StopAll(servos)
    /\ caller' = [caller EXCEPT ![c] = [IdleCaller EXCEPT !.pc = "cw_gpio"]]
    /\ UNCHANGED <<ncalls, gpio_initialized, pins, REST_ANGLE, locks, active_threads, wk>>
    /\ UNCHANGED NotRelais

\* cleanup_and_wait(): GPIO.cleanup(); _gpio_initialized = False
CwGpio(c) ==
    /\ caller[c].pc = "cw_gpio"
    /\ gpio_initialized' = FALSE
    /\ caller' = [caller EXCEPT ![c] = IdleCaller]
    /\ UNCHANGED <<ncalls, pins, servos, REST_ANGLE, locks, active_threads, wk>>
    /\ UNCHANGED NotRelais

\* _press_blocking: setup() when not initialized, then the servo lookup
WBegin(t) ==
    /\ wk[t].pc = "begin"
    /\ gpio_initialized' = SetupResult(NoArgs)[1]
    /\ pins' = SetupResult(NoArgs)[2]
    /\ servos' = SetupResult(NoArgs)[3]
    /\ wk' = [wk EXCEPT ![t].pc =
                 IF servos'[wk[t].key] = NoServo THEN "discard" ELSE "acquire"]
    /\ UNCHANGED <<ncalls, REST_ANGLE, locks, active_threads, caller>>
    /\ UNCHANGED NotRelais

\* a lock that is handed out whether or not it is held
LockFreeAlways(k) == TRUE

\* threading.Lock: acquire blocks while the lock is held
LockFree(k) == locks[k] = {}

\* _press_blocking: `with lock:` entered
WAcquire(t) ==
    /\ wk[t].pc = "acquire"
    /\ LockFree(wk[t].key)
    /\ locks' = [locks EXCEPT ![wk[t].key] = @ \cup {t}]
    /\ wk' = [wk EXCEPT ![t].pc = "press"]
    /\ UNCHANGED <<ncalls, gpio_initialized, pins, servos, REST_ANGLE, active_threads, caller>>
    /\ UNCHANGED NotRelais

\* the angle commanded at each step of the press sequence, and the next step
PressStep(t) ==
    CASE wk[t].pc = "press" -> <<wk[t].press, "rest1">>
      [] wk[t].pc = "rest1" -> <<wk[t].rest, "pulse">>
      [] wk[t].pc = "pulse" -> <<0, "rest2">>
      [] OTHER -> <<wk[t].rest, "discard">>

\* _press_blocking: one servo.move_to_angle(...) and the sleep after it; the
\* last one leaves the `with` block and releases the lock
WMove(t) ==
    /\ InPress(t)
    /\ servos' = MoveToAngle(servos, wk[t].key, PressStep(t)[1])
    /\ wk' = [wk EXCEPT ![t].pc = PressStep(t)[2]]
    /\ locks' = IF wk[t].pc = "rest2"
                THEN [locks EXCEPT ![wk[t].key] = @ \ {t}] ELSE locks
    /\ UNCHANGED <<ncalls, gpio_initialized, pins, REST_ANGLE, active_threads, caller>>
    /\ UNCHANGED NotRelais

\* worker(): finally: _active_threads.discard(current_thread()); the thread ends
WDiscard(t) ==
    /\ wk[t].pc = "discard"
    /\ active_threads' = active_threads \ {t}
    /\ wk' = [wk EXCEPT ![t].pc = "done"]
    /\ UNCHANGED <<ncalls, gpio_initialized, pins, servos, REST_ANGLE, locks, caller>>
    /\ UNCHANGED NotRelais

NextRelais ==
    \/ \E c \in Callers, args \in SetupArgs : Setup(c, args)
    \/ \E c \in Callers, a \in RestAngleInputs : SetRestAngle(c, a)
    \/ \E c \in Callers, k \in ServoKeys : TriggerBegin(c, k)
    \/ \E c \in Callers : TriggerStart(c)
    \/ \E c \in Callers : CleanupStop(c)
    \/ \E c \in Callers : CleanupGpio(c)
    \/ \E c \in Callers : CwSnapshot(c)
    \/ \E c \in Callers : CwJoin(c)
    \/ \E c \in Callers : CwStop(c)
    \/ \E c \in Callers : CwGpio(c)
    \/ \E t \in ThreadIds : WBegin(t)
    \/ \E t \in ThreadIds : WAcquire(t)
    \/ \E t \in ThreadIds : WMove(t)
    \/ \E t \in ThreadIds : WDiscard(t)

\* ============================================================ cam.py
\* bounds of the monitoring model
MaxStableFrames == 3
MaxPushes == 5

\* THRESH_A and THRESH_B, in hundredths
THRESH_A == 85
THRESH_B == 85

\* the best-match scores multi_scale_match may report, in hundredths
Scores == {80, 85, 90}

\* the texts ocr_text may return for the OCR region
MonitorTexts == {"", "42"}

\* main(): the frame's state from the two scores
Classify(val_a, val_b) ==
    IF val_a >= THRESH_A /\ val_a >= val_b THEN "STATE_A"
    ELSE IF val_b >= THRESH_B /\ val_b >= val_a THEN "STATE_B"
    ELSE "ANOMALY"

\* a window that drops the newest reading when it is full
DequeKeepsOldest(h, x, n) ==
    IF Len(h) < n THEN Append(h, x) ELSE h

\* deque(maxlen=n).append(x): the oldest entry is dropped from a full window
DequeAppend(h, x, n) ==
    IF Len(h) < n THEN Append(h, x) ELSE Append(Tail(h), x)

\* a window test that does not ask for a full window
AllEqual(h) == \A i \in 1..Len(h) : h[i] = h[1]

\* a window test that only asks for a full window
FullWindow(h) == Len(h) = STABLE_FRAMES

\* main(): len(state_history) == STABLE_FRAMES and all(s == state_history[0] ...)
IsStable(h) == Len(h) = STABLE_FRAMES /\ \A i \in 1..Len(h) : h[i] = h[1]

\* an announcement test that ignores the state announced last
AnnounceAlways(stable, last) == TRUE

\* main(): if stable != last_stable_state
ShouldAnnounce(stable, last) == stable # last

InitMonitor ==
    /\ mon_pc = "start"
    /\ STABLE_FRAMES \in 1..MaxStableFrames
    /\ state_history = <<>>
    /\ last_stable_state = None
    /\ last_ocr_text = ""
    /\ pushed = <<>>
    /\ events = <<>>

\* main(): cap = cv.VideoCapture(...); if not cap.isOpened(): raise RuntimeError
MonOpen(opened) ==
    /\ mon_pc = "start"
    /\ mon_pc' = IF opened THEN "running" ELSE "RuntimeError"
    /\ UNCHANGED <<STABLE_FRAMES, state_history, last_stable_state,
                   last_ocr_text, pushed, events>>
    /\ UNCHANGED NotMonitor

\* main(): ret, frame = cap.read(); if not ret: break
MonReadFailed ==
    /\ mon_pc = "running"
    /\ mon_pc' = "read_failed"
    /\ UNCHANGED <<STABLE_FRAMES, state_history, last_stable_state,
                   last_ocr_text, pushed, events>>
    /\ UNCHANGED NotMonitor

\* main(): one iteration of the loop on a frame that was read: classify, push,
\* announce a stable state, OCR, and leave the loop on key 'q'
MonFrame(val_a, val_b, text, quit) ==
    /\ mon_pc = "running"
    /\ Len(pushed) < MaxPushes
    /\ LET cur_state == Classify(val_a, val_b)
           h == DequeAppend(state_history, cur_state, STABLE_FRAMES)
           announce == IsStable(h) /\ ShouldAnnounce(h[1], last_stable_state)
       IN /\ state_history' = h
          /\ pushed' = Append(pushed, cur_state)
          /\ last_stable_state' = IF announce THEN h[1] ELSE last_stable_state
          /\ events' = IF announce
                       THEN Append(events, [state |-> h[1], at |-> Len(pushed) + 1])
                       ELSE events
    /\ last_ocr_text' = IF text # "" /\ text # last_ocr_text THEN text
                        ELSE last_ocr_text
    /\ mon_pc' = IF quit THEN "quit" ELSE "running"
    /\ UNCHANGED STABLE_FRAMES
    /\ UNCHANGED NotMonitor

NextMonitor ==
    \/ \E opened \in BOOLEAN : MonOpen(opened)
    \/ MonReadFailed
    \/ \E val_a, val_b \in Scores, text \in MonitorTexts, quit \in BOOLEAN :
          MonFrame(val_a, val_b, text, quit)

\* ========================================================= Server.py
\* successful captures in one run of the camera model
MaxCaptures == 2

Consumers == {"k1", "k2"}

\* self.frame = None
NoFrame == [id |-> 0, obj |-> "None"]
\* the n-th frame cap.read() delivered
CapturedFrame(n) == [id |-> n, obj |-> "captured"]
\* frame.copy(): the same image in an object of its own
FrameCopy(f) == [f EXCEPT !.obj = "copy"]

InitCamera ==
    /\ cap \in {"opened", "unopened"}
    /\ cam_running = TRUE
    /\ cam_frame = NoFrame
    /\ cam_lock = {}
    /\ reader = [pc |-> "loop", frame |-> NoFrame]
    /\ consumer = [c \in Consumers |-> [pc |-> "idle", ret |-> NoFrame]]
    /\ stopper = "idle"
    /\ ncaptures = 0
    /\ last_stored = 0

\* a reader whose loop does not test the running flag
ReaderLoopForever ==
    /\ reader.pc = "loop"
    /\ reader' = [reader EXCEPT !.pc = "read"]
    /\ UNCHANGED <<cap, cam_running, cam_frame, cam_lock, consumer, stopper,
                   ncaptures, last_stored>>
    /\ UNCHANGED NotCamera

\* _reader: while self.running
ReaderLoop ==
    /\ reader.pc = "loop"
    /\ reader' = [reader EXCEPT !.pc = IF cam_running THEN "read" ELSE "exit"]
    /\ UNCHANGED <<cap, cam_running, cam_frame, cam_lock, consumer, stopper,
                   ncaptures, last_stored>>
    /\ UNCHANGED NotCamera

\* a reader that stores whatever cap.read() returned
AfterReadAlwaysStore(ok) == "lock"

\* _reader: if ok: ... else: time.sleep(0.1)
AfterRead(ok) == IF ok THEN "lock" ELSE "sleep"

\* _reader: ok, frame = self.cap.read(); a device that is not open delivers
\* (False, None)
ReaderRead(ok) ==
    /\ reader.pc = "read"
    /\ ok => (cap = "opened" /\ ncaptures < MaxCaptures)
    /\ ncaptures' = IF ok THEN ncaptures + 1 ELSE ncaptures
    /\ reader' = [pc |-> AfterRead(ok),
                  frame |-> IF ok THEN CapturedFrame(ncaptures + 1) ELSE NoFrame]
    /\ UNCHANGED <<cap, cam_running, cam_frame, cam_lock, consumer, stopper,
                   last_stored>>
    /\ UNCHANGED NotCamera

\* _reader: time.sleep(0.1), then the next iteration
ReaderSleep ==
    /\ reader.pc = "sleep"
    /\ reader' = [reader EXCEPT !.pc = "loop"]
    /\ UNCHANGED <<cap, cam_running, cam_frame, cam_lock, consumer, stopper,
                   ncaptures, last_stored>>
    /\ UNCHANGED NotCamera

\* a reader that enters its block without waiting for the lock
ReaderEntersUnlocked ==
    /\ reader.pc = "lock"
    /\ cam_lock' = cam_lock \cup {"reader"}
    /\ reader' = [reader EXCEPT !.pc = "store"]
    /\ UNCHANGED <<cap, cam_running, cam_frame, consumer, stopper, ncaptures,
                   last_stored>>
    /\ UNCHANGED NotCamera

\* _reader: with self.lock entered
ReaderLock ==
    /\ reader.pc = "lock"
    /\ cam_lock = {}
    /\ cam_lock' = {"reader"}
    /\ reader' = [reader EXCEPT !.pc = "store"]
    /\ UNCHANGED <<cap, cam_running, cam_frame, consumer, stopper, ncaptures,
                   last_stored>>
    /\ UNCHANGED NotCamera

\* _reader: self.frame = frame, and the lock is released
ReaderStore ==
    /\ reader.pc = "store"
    /\ cam_frame' = reader.frame
    /\ last_stored' = IF reader.frame.obj = "captured" THEN reader.frame.id
                      ELSE last_stored
    /\ cam_lock' = cam_lock \ {"reader"}
    /\ reader' = [reader EXCEPT !.pc = "loop"]
    /\ UNCHANGED <<cap, cam_running, consumer, stopper, ncaptures>>
    /\ UNCHANGED NotCamera

\* get_frame: with self.lock entered
GetFrameAcquire(c) ==
    /\ consumer[c].pc = "idle"
    /\ cam_lock = {}
    /\ cam_lock' = {c}
    /\ consumer' = [consumer EXCEPT ![c] = [pc |-> "copy", ret |-> NoFrame]]
    /\ UNCHANGED <<cap, cam_running, cam_frame, reader, stopper, ncaptures,
                   last_stored>>
    /\ UNCHANGED NotCamera

\* get_frame: None if self.frame is None else self.frame.copy()
GetFrameCopy(c) ==
    /\ consumer[c].pc = "copy"
    /\ consumer' = [consumer EXCEPT ![c] =
                      [pc |-> "release",
                       ret |-> IF cam_frame = NoFrame THEN NoFrame
                               ELSE FrameCopy(cam_frame)]]
    /\ UNCHANGED <<cap, cam_running, cam_frame, cam_lock, reader, stopper,
                   ncaptures, last_stored>>
    /\ UNCHANGED NotCamera

\* get_frame: the with block is left and the value returned
GetFrameReturn(c) ==
    /\ consumer[c].pc = "release"
    /\ cam_lock' = cam_lock \ {c}
    /\ consumer' = [consumer EXCEPT ![c].pc = "idle"]
    /\ UNCHANGED <<cap, cam_running, cam_frame, reader, stopper, ncaptures,
                   last_stored>>
    /\ UNCHANGED NotCamera

\* stop(): self.running = False
StopFlag ==
    /\ stopper = "idle"
    /\ cam_running' = FALSE
    /\ stopper' = "release"
    /\ UNCHANGED <<cap, cam_frame, cam_lock, reader, consumer, ncaptures,
                   last_stored>>
    /\ UNCHANGED NotCamera

\* stop(): self.cap.release()
StopRelease ==
    /\ stopper = "release"
    /\ cap' = "released"
    /\ stopper' = "stopped"
    /\ UNCHANGED <<cam_running, cam_frame, cam_lock, reader, consumer,
                   ncaptures, last_stored>>
    /\ UNCHANGED NotCamera

NextCamera ==
    \/ ReaderLoop
    \/ \E ok \in BOOLEAN : ReaderRead(ok)
    \/ ReaderSleep
    \/ ReaderLock
    \/ ReaderStore
    \/ \E c \in Consumers : GetFrameAcquire(c)
    \/ \E c \in Consumers : GetFrameCopy(c)
    \/ \E c \in Consumers : GetFrameReturn(c)
    \/ StopFlag
    \/ StopRelease

\* ===================================================== Python strings
AsciiDigits == {"0", "1", "2", "3", "4", "5", "6", "7", "8", "9"}

\* characters outside 0-9 that Python's str.isdigit() accepts: "sup2" is
\* SUPERSCRIPT TWO (U+00B2), a digit that is no decimal; "ar3" is
\* ARABIC-INDIC DIGIT THREE (U+0663), a decimal
OtherDigits == {"sup2", "ar3"}

\* ch.isdigit()
IsDigit(ch) == ch \in AsciiDigits \cup OtherDigits

\* the characters int() reads as decimal digits
IsDecimal(ch) == ch \in AsciiDigits \cup {"ar3"}

\* the value int() gives a decimal digit
DigitValue(ch) ==
    CASE ch = "0" -> 0 [] ch = "1" -> 1 [] ch = "2" -> 2 [] ch = "3" -> 3
      [] ch = "4" -> 4 [] ch = "5" -> 5 [] ch = "6" -> 6 [] ch = "7" -> 7
      [] ch = "8" -> 8 [] ch = "9" -> 9 [] ch = "ar3" -> 3

\* s.isdigit(): every character is a digit and there is at least one
StrIsDigit(s) == Len(s) > 0 /\ \A i \in 1..Len(s) : IsDigit(s[i])

IsSpace(ch) == ch \in {" ", "\n"}

RECURSIVE LStrip(_)
LStrip(s) == IF s # <<>> /\ IsSpace(Head(s)) THEN LStrip(Tail(s)) ELSE s

RECURSIVE RStrip(_)
RStrip(s) ==
    IF s # <<>> /\ IsSpace(s[Len(s)]) THEN RStrip(SubSeq(s, 1, Len(s) - 1)) ELSE s

\* s.strip()
Strip(s) == RStrip(LStrip(s))

\* int(s) of a string of decimal digits
RECURSIVE IntOf(_)
IntOf(s) ==
    IF s = <<>> THEN 0
    ELSE 10 * IntOf(SubSeq(s, 1, Len(s) - 1)) + DigitValue(s[Len(s)])

\* ============================================== idea.py: next_digit
\* lines of a code file, the header line included
MaxLines == 3

\* the digit lengths asked for
Counts == {4, 5}

\* the lines a code file may hold, as readlines() returns them
LineChoices == {<<"1", "2", "\n">>, <<" ", "7", "\n">>, <<"\n">>}

NoCodeFile == [exists |-> FALSE, lines |-> <<>>]
CodeFiles ==
    {NoCodeFile} \cup
    {[exists |-> TRUE, lines |-> l] :
        l \in UNION {[1..n -> LineChoices] : n \in 0..MaxLines}}

Result(kind, val) == [kind |-> kind, val |-> val]

\* next_digit without the header line: all lines count, lines[line] is served
NextDigitNoHeader(file, line) ==
    IF ~file.exists THEN Result("False", <<>>)
    ELSE IF line = Len(file.lines) THEN Result("done", <<>>)
    ELSE IF line + 1 <= Len(file.lines)
         THEN Result("digit", Strip(file.lines[line + 1]))
         ELSE Result("IndexError", <<>>)

\* next_digit(count, line) on the file of that count, for line >= 0:
\* readlines()[line + 1] is the entry line + 2 of the sequence
NextDigit(file, line) ==
    IF ~file.exists THEN Result("False", <<>>)
    ELSE LET total_lines == Len(file.lines) - 1
         IN IF line = total_lines THEN Result("done", <<>>)
            ELSE IF line + 2 <= Len(file.lines)
                 THEN Result("digit", Strip(file.lines[line + 2]))
                 ELSE Result("IndexError", <<>>)

NoProbe == [line |-> 0, result |-> Result("none", <<>>)]

InitDigits ==
    /\ dg_count \in Counts
    /\ dg_file \in CodeFiles
    /\ dg_start = 0
    /\ dg_line = 0
    /\ dg_served = <<>>
    /\ dg_probe = NoProbe

\* the next request of an iteration over offsets start, start + 1, ...: it
\* goes on after every candidate and ends with the first other result
RequestNext ==
    /\ IF dg_served = <<>> THEN TRUE ELSE dg_served[Len(dg_served)].kind = "digit"
    /\ LET r == NextDigit(dg_file, dg_line)
       IN /\ dg_served' = Append(dg_served, r)
          /\ dg_line' = IF r.kind = "digit" THEN dg_line + 1 ELSE dg_line
    /\ UNCHANGED <<dg_count, dg_file, dg_start, dg_probe>>
    /\ UNCHANGED NotDigits

\* a new iteration (a replay) from offset s
Restart(s) ==
    /\ dg_served # <<>>
    /\ dg_start' = s
    /\ dg_line' = s
    /\ dg_served' = <<>>
    /\ UNCHANGED <<dg_count, dg_file, dg_probe>>
    /\ UNCHANGED NotDigits

\* one request at an arbitrary offset
Probe(line) ==
    /\ dg_probe' = [line |-> line, result |-> NextDigit(dg_file, line)]
    /\ UNCHANGED <<dg_count, dg_file, dg_start, dg_line, dg_served>>
    /\ UNCHANGED NotDigits

NextDigits ==
    \/ RequestNext
    \/ \E s \in 0..MaxLines : Restart(s)
    \/ \E line \in 0..(MaxLines + 1) : Probe(line)

\* ================================ hid_type_numbers.py: type_numbers
\* characters of the argument s
MaxDigits == 3

HidChars == {"1", "0", "sup2", "a"}
HidInputs == UNION {[1..n -> HidChars] : n \in 0..MaxDigits}

\* NUM_KEYCODES: '1'..'9' -> 0x1E..0x26, '0' -> 0x27
HasKeycode(ch) == ch \in AsciiDigits
NumKeycode(ch) == IF ch = "0" THEN 39 ELSE 29 + DigitValue(ch)
ENTER_KEYCODE == 40

\* _send_report: bytes([modifier, 0x00] + keycodes + [0x00] * (6 - len(keycodes)))
Report(modifier, keycodes) ==
    <<modifier, 0>> \o keycodes \o [i \in 1..(6 - Len(keycodes)) |-> 0]

\* a key press that writes the key-down report only
PressKeyNoRelease(keycode) == <<Report(0, <<keycode>>)>>

\* _press_key: the key-down report, then the release report
PressKey(keycode) == <<Report(0, <<keycode>>), Report(0, <<>>)>>

InitHid ==
    /\ hid_device_exists \in BOOLEAN
    /\ hid_pc = "idle"
    /\ hid_s = <<>>
    /\ hid_press_enter = TRUE
    /\ hid_i = 0
    /\ hid_reports = <<>>
    /\ hid_outcome = "none"

\* type_numbers(s, press_enter): the two checks, then the device is opened
TypeNumbers(s, press_enter) ==
    /\ hid_pc = "idle"
    /\ hid_s' = s
    /\ hid_press_enter' = press_enter
    /\ IF ~hid_device_exists
       THEN hid_pc' = "done" /\ hid_outcome' = "FileNotFoundError"
       ELSE IF ~StrIsDigit(s)
       THEN hid_pc' = "done" /\ hid_outcome' = "ValueError"
       ELSE hid_pc' = "typing" /\ hid_outcome' = "none"
    /\ UNCHANGED <<hid_device_exists, hid_i, hid_reports>>
    /\ UNCHANGED NotHid

\* type_numbers: one pass of `for ch in s`
TypeChar ==
    /\ hid_pc = "typing"
    /\ hid_i < Len(hid_s)
    /\ LET ch == hid_s[hid_i + 1]
       IN IF HasKeycode(ch)
          THEN /\ hid_reports' = hid_reports \o PressKey(NumKeycode(ch))
               /\ hid_i' = hid_i + 1
               /\ UNCHANGED <<hid_pc, hid_outcome>>
          ELSE /\ hid_pc' = "done"
               /\ hid_outcome' = "KeyError"
               /\ UNCHANGED <<hid_i, hid_reports>>
    /\ UNCHANGED <<hid_device_exists, hid_s, hid_press_enter>>
    /\ UNCHANGED NotHid

\* type_numbers: after the loop, Enter when press_enter, and the return
TypeEnd ==
    /\ hid_pc = "typing"
    /\ hid_i = Len(hid_s)
    /\ hid_reports' = IF hid_press_enter
                      THEN hid_reports \o PressKey(ENTER_KEYCODE)
                      ELSE hid_reports
    /\ hid_pc' = "done"
    /\ hid_outcome' = "ok"
    /\ UNCHANGED <<hid_device_exists, hid_s, hid_press_enter, hid_i>>
    /\ UNCHANGED NotHid

NextHid ==
    \/ \E s \in HidInputs, press_enter \in BOOLEAN : TypeNumbers(s, press_enter)
    \/ TypeChar
    \/ TypeEnd

\* ============================================== idea.py: get_timeout
\* characters of the OCR text
MaxTextLen == 3

OcrChars == {"0", "4", "2", "s", "sup2", "ar3"}

\* what cam.get_text('Info_text') may return: None, or a text (the empty
\* text when no frame is available or nothing is recognized)
GetTextResults ==
    {[none |-> TRUE, chars |-> <<>>]} \cup
    {[none |-> FALSE, chars |-> t] :
        t \in UNION {[1..n -> OcrChars] : n \in 0..MaxTextLen}}

\* get_timeout(): (text or ''), the isdigit filter, then int() of what is left
GetTimeout(text) ==
    LET digits == SelectSeq(IF text.none THEN <<>> ELSE text.chars, IsDigit)
    IN IF digits = <<>> THEN [kind |-> "None", val |-> 0]
       ELSE IF \A i \in 1..Len(digits) : IsDecimal(digits[i])
            THEN [kind |-> "int", val |-> IntOf(digits)]
            ELSE [kind |-> "ValueError", val |-> 0]

InitOcr ==
    /\ ocr_text = [none |-> TRUE, chars |-> <<>>]
    /\ timeout_result = [kind |-> "not called", val |-> 0]

\* one call of get_timeout()
GetTimeoutCall(text) ==
    /\ ocr_text' = text
    /\ timeout_result' = GetTimeout(text)
    /\ UNCHANGED NotOcr

NextOcr ==
    \E text \in GetTextResults : GetTimeoutCall(text)

\* ============================================== idea.py: clear_cache
\* the thread that runs the controller and calls clear_cache()
ControllerThread == "c1"

\* the statements of clear_cache(), in order: the attribute of module relais
\* that is looked up and the argument it is called with
Step(op, arg) == [op |-> op, arg |-> arg]
ClearCacheScript ==
    <<Step("DOWN", "seconds=5"), Step("PWR", "seconds=5"),
      Step("switch_usb", "mode=usb"),
      Step("UP", "seconds=5"), Step("PWR", "seconds=5"),
      Step("DOWN", ""), Step("DOWN", ""), Step("DOWN", ""), Step("DOWN", ""),
      Step("DOWN", ""),
      Step("PWR", ""), Step("DOWN", ""), Step("PWR", ""),
      Step("switch_usb", "mode=otg"),
      Step("cleanup", "")>>

\* the names module relais defines
RelaisAttributes ==
    {"time", "threading", "Optional", "Set", "GPIO", "_DummyGPIO",
     "_DEFAULT_PINS", "_DEFAULT_FREQ", "_MIN_DUTY", "_MAX_DUTY", "_REST_ANGLE",
     "_Servo", "_gpio_initialized", "_servos", "_pins", "_locks",
     "_active_threads", "setup", "_press_blocking", "_start_press_thread",
     "UP", "DOWN", "PWR", "__all__", "set_rest_angle", "cleanup",
     "cleanup_and_wait"}

\* rpi.<name>: a name the module does not define raises AttributeError
HasAttr(name) == name \in RelaisAttributes

\* clear_cache(): the next statement, run by the controller's thread; a
\* trigger returns the thread after t.start() (TriggerStart)
ClearCacheStep ==
    /\ rc_outcome = "running"
    /\ caller[ControllerThread].pc = "idle"
    /\ LET i == Len(rc_issued) + 1
       IN IF i > Len(ClearCacheScript)
          THEN /\ rc_outcome' = "returned"
               /\ ctl_pc' = "FetchCandidate"
               /\ UNCHANGED <<rc_issued, relaisVars>>
          ELSE IF ~HasAttr(ClearCacheScript[i].op)
          THEN /\ rc_outcome' = "AttributeError"
               /\ ctl_pc' = "AttributeError"
               /\ UNCHANGED <<rc_issued, relaisVars>>
          ELSE IF ClearCacheScript[i].op = "cleanup"
          THEN /\ servos' = StopAll(servos)
               /\ gpio_initialized' = FALSE
               /\ rc_issued' = Append(rc_issued, ClearCacheScript[i])
               /\ UNCHANGED <<pins, REST_ANGLE, locks, active_threads, wk,
                              caller, ncalls, rc_outcome, ctl_pc>>
          ELSE /\ StartPressThread(ControllerThread, ClearCacheScript[i].op)
               /\ rc_issued' = Append(rc_issued, ClearCacheScript[i])
               /\ UNCHANGED <<rc_outcome, ctl_pc>>
    /\ UNCHANGED <<ctl_files, ctl_count, ctl_offset, ctl_requests, ctl_verdict,
                   ctl_recoveries, ctl_obs>>
    /\ UNCHANGED NotController

InitRecover ==
    /\ rc_issued = <<>>
    /\ rc_outcome = "idle"

\* ============================================= idea.py: the signals
\* Python values of different types, for ==
PyStr(text) == [type |-> "str", val |-> text]
PyBool(b) == [type |-> "bool", val |-> IF b THEN "True" ELSE "False"]
PyNone == [type |-> "NoneType", val |-> "None"]

wrong_code == "Falscher Code. Bitte erneut versuchen."
swipe_text == "Zum Entsperren wischen"

\* what cam.get_text('Info_text') may return to the controller
InfoTexts ==
    {PyStr(wrong_code), PyStr("Falscher Code."), PyStr("042"), PyStr(""), PyNone}

\* what cam.check('Swipe', threshold=0.8) may return: whether the template
\* matched
CheckResults == {PyBool(TRUE), PyBool(FALSE)}

\* wrong_code_detected(): cam.get_text('Info_text') == wrong_code
WrongCodeDetected(text) == text = PyStr(wrong_code)

\* check_swipe(): cam.check('Swipe', threshold=0.8) == swipe_text
CheckSwipe(check) == check = PyStr(swipe_text)

\* ======================================== the automation controller
\* FetchCandidate -> Enter -> Observe -> {Succeeded | Failed | TimedOut}
\*   -> Recover -> FetchCandidate, with the terminal states Exhausted and
\* Succeeded; an exception that escapes a call ends the controller in a state
\* named after the exception

\* the code files of the controller's runs: absent, empty, or a header line
\* and candidates
CtlFiles ==
    {NoCodeFile, [exists |-> TRUE, lines |-> <<>>]} \cup
    {[exists |-> TRUE,
      lines |-> [i \in 1..n |-> IF i = 1 THEN <<"\n">> ELSE <<"1", "2", "\n">>]] :
        n \in 1..MaxLines}

NoObservation ==
    [text |-> PyNone, check |-> PyNone, wrong |-> FALSE, swipe |-> FALSE]

InitController ==
    /\ ctl_pc = "FetchCandidate"
    /\ ctl_files \in [Counts -> CtlFiles]
    /\ ctl_count = 4
    /\ ctl_offset \in 0..(MaxLines - 1)
    /\ ctl_requests = <<>>
    /\ ctl_verdict = "none"
    /\ ctl_recoveries = 0
    /\ ctl_obs = NoObservation

\* FetchCandidate: the next candidate of the current length; past the end of
\* one length the next length is asked for from offset 0, and past the last
\* length the sequence is exhausted
FetchCandidate ==
    /\ ctl_pc = "FetchCandidate"
    /\ LET r == NextDigit(ctl_files[ctl_count], ctl_offset)
       IN /\ ctl_requests' = Append(ctl_requests,
                 [count |-> ctl_count, offset |-> ctl_offset, result |-> r])
          /\ ctl_pc' = CASE r.kind = "digit" -> "Enter"
                         [] r.kind = "IndexError" -> "IndexError"
                         [] r.kind = "done" /\ ctl_count + 1 \in Counts -> "FetchCandidate"
                         [] OTHER -> "Exhausted"
          /\ ctl_count' = IF r.kind = "done" /\ ctl_count + 1 \in Counts
                          THEN ctl_count + 1 ELSE ctl_count
          /\ ctl_offset' = CASE r.kind = "digit" -> ctl_offset + 1
                             [] r.kind = "done" /\ ctl_count + 1 \in Counts -> 0
                             [] OTHER -> ctl_offset
    /\ ctl_verdict' = "none"
    /\ ctl_recoveries' = 0
    /\ UNCHANGED <<ctl_files, ctl_obs, relaisVars, recVars>>
    /\ UNCHANGED NotController

\* Enter: the candidate's digits are handed to the HID writer
Enter ==
    /\ ctl_pc = "Enter"
    /\ ctl_pc' = "Observe"
    /\ UNCHANGED <<ctl_files, ctl_count, ctl_offset, ctl_requests, ctl_verdict,
                   ctl_recoveries, ctl_obs, relaisVars, recVars>>
    /\ UNCHANGED NotController

\* Observe: one poll. The exact error message gives Failed; a swipe template
\* that no longer matches is a tentative success that the goal signal
\* confirms; the end of the poll window gives TimedOut; Failed and TimedOut
\* invoke the recovery sequence
Observe(text, check, goal, window_over) ==
    /\ ctl_pc = "Observe"
    /\ LET wrong == WrongCodeDetected(text)
           swipe == CheckSwipe(check)
           verdict == IF wrong THEN "Failed"
                      ELSE IF ~swipe /\ goal THEN "Succeeded"
                      ELSE IF window_over THEN "TimedOut"
                      ELSE "none"
           recover == verdict \in {"Failed", "TimedOut"}
       IN /\ ctl_obs' = [text |-> text, check |-> check, wrong |-> wrong,
                         swipe |-> swipe]
          /\ ctl_verdict' = verdict
          /\ ctl_pc' = CASE recover -> "Recover"
                         [] verdict = "Succeeded" -> "Succeeded"
                         [] OTHER -> "Observe"
          /\ ctl_recoveries' = IF recover THEN ctl_recoveries + 1 ELSE ctl_recoveries
          /\ rc_outcome' = IF recover THEN "running" ELSE rc_outcome
          /\ rc_issued' = IF recover THEN <<>> ELSE rc_issued
    /\ UNCHANGED <<ctl_files, ctl_count, ctl_offset, ctl_requests, relaisVars>>
    /\ UNCHANGED NotController

NextController ==
    \/ FetchCandidate
    \/ Enter
    \/ \E text \in InfoTexts, check \in CheckResults, goal, window_over \in BOOLEAN :
          Observe(text, check, goal, window_over)
    \/ ClearCacheStep
    \/ TriggerStart(ControllerThread)
    \/ \E t \in ThreadIds : WBegin(t)
    \/ \E t \in ThreadIds : WAcquire(t)
    \/ \E t \in ThreadIds : WMove(t)
    \/ \E t \in ThreadIds : WDiscard(t)

\* ========================================= Server.py: process state
\* control requests handled in one run of the status model
MaxRequests == 3

PyInt(n) == [type |-> "int", val |-> n]

\* data.get('value') of a goal report: the key missing, a string or a number
GoalValues ==
    {PyNone, PyStr(""), PyStr("1234"), PyStr("0000"), PyInt("0"), PyInt("7")}

\* Python's truth value of a request value: `not val` is its negation
Truthy(v) ==
    CASE v.type = "NoneType" -> FALSE
      [] v.type = "str" -> v.val # ""
      [] v.type = "int" -> v.val # "0"
      [] OTHER -> v.val = "True"

\* f"Found it: {val}!!", as the pieces of the text
GoalMsg(val) == <<"Found it: ", val.val, "!!">>

Request(op, val) == [op |-> op, val |-> val]

InitStatus ==
    /\ state = [running |-> FALSE, paused |-> FALSE, current_digits |-> 0,
                line_progress |-> 0, num_lines |-> 0, goal_msg |-> <<>>]
    /\ st_log = <<>>

\* a request is handled: it is appended to the log
Handled(op, val) ==
    /\ Len(st_log) < MaxRequests
    /\ st_log' = Append(st_log, Request(op, val))

\* a start handler that also clears the goal message
ApiStartClearsGoal ==
    /\ Handled("start", PyNone)
    /\ state' = [state EXCEPT !.running = TRUE, !.paused = FALSE,
                               !.goal_msg = <<>>]
    /\ UNCHANGED NotStatus

\* /api/start
ApiStart ==
    /\ Handled("start", PyNone)
    /\ state' = [state EXCEPT !.running = TRUE, !.paused = FALSE]
    /\ UNCHANGED NotStatus

\* /api/stop
ApiStop ==
    /\ Handled("stop", PyNone)
    /\ state' = [state EXCEPT !.running = FALSE, !.paused = FALSE]
    /\ UNCHANGED NotStatus

\* /api/pause
ApiPause ==
    /\ Handled("pause", PyNone)
    /\ state' = [state EXCEPT !.paused = TRUE]
    /\ UNCHANGED NotStatus

\* /api/resume
ApiResume ==
    /\ Handled("resume", PyNone)
    /\ state' = [state EXCEPT !.paused = FALSE]
    /\ UNCHANGED NotStatus

\* a goal handler that records the message and leaves running alone
ApiGoalKeepsRunning(val) ==
    /\ Handled("goal", val)
    /\ state' = IF ~Truthy(val) THEN state
                ELSE [state EXCEPT !.goal_msg = GoalMsg(val)]
    /\ UNCHANGED NotStatus

\* /api/goal: 400 'missing value' when `not val`, else the message is
\* recorded and running cleared
ApiGoal(val) ==
    /\ Handled("goal", val)
    /\ state' = IF ~Truthy(val) THEN state
                ELSE [state EXCEPT !.goal_msg = GoalMsg(val), !.running = FALSE]
    /\ UNCHANGED NotStatus

NextStatus ==
    \/ ApiStart
    \/ ApiStop
    \/ ApiPause
    \/ ApiResume
    \/ \E val \in GoalValues : ApiGoal(val)

\* ======================================================= calibrate.py
MaxCoord == 1
MaxSaves == 2

\* mouse positions inside the window
Coords == 0..MaxCoord

\* None, for sel and pt1
NoSel == <<>>

Min2(a, b) == IF a < b THEN a ELSE b
Abs(a) == IF a < 0 THEN -a ELSE a

\* (min(pt1[0], x), min(pt1[1], y), abs(x-pt1[0]), abs(y-pt1[1]))
SelRect(p, x, y) ==
    <<Min2(p[1], x), Min2(p[2], y), Abs(x - p[1]), Abs(y - p[2])>>

\* the truth value Python gives sel: None is false, a 4-tuple is true
\* whatever its entries
SelTruthy(r) == Len(r) > 0

MouseEvents == {"EVENT_LBUTTONDOWN", "EVENT_MOUSEMOVE", "EVENT_LBUTTONUP"}

\* region_keys
region_keys ==
    [k \in {"i", "w", "c", "h"} |->
        CASE k = "i" -> "Info_text"
          [] k = "w" -> "Swipe"
          [] k = "c" -> "Code"
          [] k = "h" -> "Home"]

RegionNames == {region_keys[k] : k \in DOMAIN region_keys}

\* the keys main() tests for, and "other" for any other key or none
CalKeys == {"q", "1", "2", "o", "i", "w", "c", "h", "s", "other"}

\* load_config() without a config.json; a region not in REGIONS is None
InitCalibrate ==
    /\ sel = NoSel
    /\ dragging = FALSE
    /\ pt1 = NoSel
    /\ cfg = [OCR_ROI |-> <<900, 630, 340, 60>>,
              REGIONS |-> [n \in RegionNames |-> NoSel]]
    /\ cal_pc = "loop"
    /\ cal_saves = 0

\* on_mouse, called back while main() waits for a key
on_mouse(event, x, y) ==
    /\ cal_pc = "loop"
    /\ CASE event = "EVENT_LBUTTONDOWN" ->
             /\ dragging' = TRUE
             /\ pt1' = <<x, y>>
             /\ sel' = NoSel
        [] event = "EVENT_MOUSEMOVE" /\ dragging ->
             /\ sel' = SelRect(pt1, x, y)
             /\ UNCHANGED <<dragging, pt1>>
        [] event = "EVENT_LBUTTONUP" ->
             /\ dragging' = FALSE
             /\ sel' = IF pt1 # NoSel THEN SelRect(pt1, x, y) ELSE sel
             /\ UNCHANGED pt1
        [] OTHER -> UNCHANGED <<sel, dragging, pt1>>
    /\ UNCHANGED <<cfg, cal_pc, cal_saves>>
    /\ UNCHANGED NotCalibrate

\* main(): one turn of the loop with a frame read and the key k; the
\* template and screenshot keys write image files only
CalKey(k) ==
    /\ cal_pc = "loop"
    /\ CASE k = "q" ->
             /\ cal_pc' = "done"
             /\ UNCHANGED <<cfg, cal_saves>>
        [] k = "o" /\ SelTruthy(sel) ->
             /\ cal_saves < MaxSaves
             /\ cfg' = [cfg EXCEPT !.OCR_ROI = sel]
             /\ cal_saves' = cal_saves + 1
             /\ UNCHANGED cal_pc
        [] k \in {"i", "w", "c", "h"} /\ SelTruthy(sel) ->
             /\ cal_saves < MaxSaves
             /\ cfg' = [cfg EXCEPT !.REGIONS[region_keys[k]] = sel]
             /\ cal_saves' = cal_saves + 1
             /\ UNCHANGED cal_pc
        [] OTHER -> UNCHANGED <<cfg, cal_pc, cal_saves>>
    /\ UNCHANGED <<sel, dragging, pt1>>
    /\ UNCHANGED NotCalibrate

\* main(): cap.read() fails and the loop is left
CalReadFails ==
    /\ cal_pc = "loop"
    /\ cal_pc' = "done"
    /\ UNCHANGED <<sel, dragging, pt1, cfg, cal_saves>>
    /\ UNCHANGED NotCalibrate

NextCalibrate ==
    \/ \E event \in MouseEvents, x \in Coords, y \in Coords :
          on_mouse(event, x, y)
    \/ \E k \in CalKeys : CalKey(k)
    \/ CalReadFails

\* ==================================================== specifications
\* STABLE_FRAMES as cam.py sets it
ConfiguredStableFrames == 3

\* a part that takes no step stays in one fixed state
RelaisAtRest == InitRelais
MonitorAtRest == InitMonitor /\ STABLE_FRAMES = ConfiguredStableFrames
CameraAtRest == InitCamera /\ cap = "opened"
DigitsAtRest == InitDigits /\ dg_count = 4 /\ dg_file = NoCodeFile
HidAtRest == InitHid /\ hid_device_exists
OcrAtRest == InitOcr
RecoverAtRest == InitRecover
ControllerAtRest ==
    /\ InitController /\ ctl_offset = 0
    /\ ctl_files = [n \in Counts |-> NoCodeFile]
StatusAtRest == InitStatus
CalibrateAtRest == InitCalibrate

InitSpecRelais ==
    /\ InitRelais /\ MonitorAtRest /\ CameraAtRest /\ DigitsAtRest
    /\ HidAtRest /\ OcrAtRest
    /\ RecoverAtRest /\ ControllerAtRest /\ StatusAtRest /\ CalibrateAtRest

SpecRelais == InitSpecRelais /\ [][NextRelais]_vars

InitSpecMonitor ==
    /\ RelaisAtRest /\ InitMonitor /\ CameraAtRest /\ DigitsAtRest
    /\ HidAtRest /\ OcrAtRest
    /\ RecoverAtRest /\ ControllerAtRest /\ StatusAtRest /\ CalibrateAtRest

SpecMonitor == InitSpecMonitor /\ [][NextMonitor]_vars

InitSpecCamera ==
    /\ RelaisAtRest /\ MonitorAtRest /\ InitCamera /\ DigitsAtRest
    /\ HidAtRest /\ OcrAtRest
    /\ RecoverAtRest /\ ControllerAtRest /\ StatusAtRest /\ CalibrateAtRest

SpecCamera == InitSpecCamera /\ [][NextCamera]_vars

\* fair scheduling: a thread that can take its next step takes it, and a
\* thread waiting for the frame lock gets it when it is free again and again
CameraFairness ==
    /\ WF_vars(ReaderLoop)
    /\ WF_vars(\E ok \in BOOLEAN : ReaderRead(ok))
    /\ WF_vars(ReaderSleep)
    /\ SF_vars(ReaderLock)
    /\ WF_vars(ReaderStore)
    /\ \A c \in Consumers : WF_vars(GetFrameCopy(c))
    /\ \A c \in Consumers : WF_vars(GetFrameReturn(c))

SpecCameraFair == InitSpecCamera /\ [][NextCamera]_vars /\ CameraFairness

InitSpecDigits ==
    /\ RelaisAtRest /\ MonitorAtRest /\ CameraAtRest /\ InitDigits
    /\ HidAtRest /\ OcrAtRest
    /\ RecoverAtRest /\ ControllerAtRest /\ StatusAtRest /\ CalibrateAtRest

SpecDigits == InitSpecDigits /\ [][NextDigits]_vars

InitSpecHid ==
    /\ RelaisAtRest /\ MonitorAtRest /\ CameraAtRest /\ DigitsAtRest
    /\ InitHid /\ OcrAtRest
    /\ RecoverAtRest /\ ControllerAtRest /\ StatusAtRest /\ CalibrateAtRest

SpecHid == InitSpecHid /\ [][NextHid]_vars

InitSpecOcr ==
    /\ RelaisAtRest /\ MonitorAtRest /\ CameraAtRest /\ DigitsAtRest
    /\ HidAtRest /\ InitOcr
    /\ RecoverAtRest /\ ControllerAtRest /\ StatusAtRest /\ CalibrateAtRest

SpecOcr == InitSpecOcr /\ [][NextOcr]_vars

InitSpecController ==
    /\ InitRelais /\ MonitorAtRest /\ CameraAtRest /\ DigitsAtRest
    /\ HidAtRest /\ OcrAtRest
    /\ InitRecover /\ InitController /\ StatusAtRest /\ CalibrateAtRest

SpecController == InitSpecController /\ [][NextController]_vars

InitSpecStatus ==
    /\ RelaisAtRest /\ MonitorAtRest /\ CameraAtRest /\ DigitsAtRest
    /\ HidAtRest /\ OcrAtRest
    /\ RecoverAtRest /\ ControllerAtRest /\ InitStatus /\ CalibrateAtRest

SpecStatus == InitSpecStatus /\ [][NextStatus]_vars

InitSpecCalibrate ==
    /\ RelaisAtRest /\ MonitorAtRest /\ CameraAtRest /\ DigitsAtRest
    /\ HidAtRest /\ OcrAtRest
    /\ RecoverAtRest /\ ControllerAtRest /\ StatusAtRest /\ InitCalibrate

SpecCalibrate == InitSpecCalibrate /\ [][NextCalibrate]_vars

\* ------------------------------------------------------ claims: relais.py

\* C1: for each servo at most one press sequence (a worker inside the
\* servo's `with lock:` block) is executing at any time
C1_OnePressPerServo ==
    \A k \in ServoKeys :
        Cardinality({t \in ThreadIds : InPress(t) /\ wk[t].key = k}) <= 1

\* C1, second half: press sequences on two different servos execute at the
\* same time
C1_TwoServosPressing ==
    \E t, u \in ThreadIds :
        /\ InPress(t) /\ InPress(u)
        /\ wk[t].key # wk[u].key

\* C5: a trigger call is never blocked by the servo's lock: with a press in
\* progress on servo k the call can still be entered, and a caller that has
\* created its thread can always start it and return the handle; a worker
\* that reaches the lock while it is held is the one that waits
C5_TriggerNeverWaitsForLock ==
    /\ \A c \in Callers : caller[c].pc = "t_start" => ENABLED TriggerStart(c)
    /\ \A c \in Callers, k \in ServoKeys :
          (/\ caller[c].pc = "idle"
           /\ ncalls < MaxCalls
           /\ \E t \in ThreadIds : wk[t].pc = "unborn"
           /\ locks[k] # {}) => ENABLED TriggerBegin(c, k)
    /\ \A t \in ThreadIds :
          (wk[t].pc = "acquire" /\ locks[wk[t].key] # {}) => ~ENABLED WAcquire(t)

\* C5: a caller holds the handle of a thread that waits for the lock of a
\* servo on which another press sequence is in progress
C5_HandleReturnedWhileServoBusy ==
    \E c \in Callers, t, u \in ThreadIds :
        /\ caller[c].pc = "idle" /\ caller[c].ret = "Thread" /\ caller[c].thr = {t}
        /\ wk[t].pc = "acquire"
        /\ u # t /\ InPress(u) /\ wk[u].key = wk[t].key

\* C6: whenever cleanup_and_wait() stops the PWM outputs, and whenever it
\* releases GPIO, no press sequence is in progress on any servo
C6_NoPressWhenCleanupAndWaitStops ==
    [][\A c \in Callers :
          (\/ caller[c].pc = "cw_join" /\ caller'[c].pc = "cw_gpio"
           \/ caller[c].pc = "cw_gpio" /\ caller'[c].pc = "idle")
          => \A t \in ThreadIds : ~InPress(t)]_vars


\* ---------------------------------------------------------- claims: cam.py
AllSame(s) == \A i \in 1..Len(s) : s[i] = s[1]

\* C2: on a fresh tracker with window size N = STABLE_FRAMES, while fewer
\* than N identical readings were pushed no state-change event was emitted,
\* and the N-th identical reading emits one event, carrying that reading
C2_NthIdenticalReadingAnnounces ==
    AllSame(pushed) =>
        IF Len(pushed) < STABLE_FRAMES THEN events = <<>>
        ELSE events = <<[state |-> pushed[1], at |-> STABLE_FRAMES]>>

\* C2: a window of two or more readings was just filled by identical readings
C2_WindowFilledByIdenticalReadings ==
    /\ STABLE_FRAMES >= 2
    /\ Len(pushed) = STABLE_FRAMES
    /\ AllSame(pushed)
    /\ Len(events) = 1

\* C3: no two consecutive state-change events carry the same state
C3_NoDoubleAnnouncement ==
    \A i \in 1..(Len(events) - 1) : events[i].state # events[i + 1].state

\* C3: after two announcements the window is stable again at a later push,
\* on the state announced last, and nothing new was announced
C3_StableAgainWithoutAnnouncement ==
    /\ Len(events) >= 2
    /\ IsStable(state_history)
    /\ state_history[1] = last_stable_state
    /\ Len(pushed) > events[Len(events)].at

\* C8: a failed frame read does not end the capture loop (for main() of
\* cam.py: the loop is never left because of a failed read)
C8_CaptureLoopSurvivesFailure == mon_pc # "read_failed"

\* ------------------------------------------------------- claims: Server.py
\* C7: get_frame returns None exactly when no capture was stored yet, and
\* otherwise a copy of the frame of the last successful capture (a failed
\* capture changes nothing); it waits for the lock only, never for a capture:
\* with the lock free the call goes on, and a holder of the lock can always
\* take its next step
C7_GetFrameReturnsLatestWithoutWaiting ==
    /\ \A c \in Consumers :
          consumer[c].pc = "release" =>
              consumer[c].ret = IF last_stored = 0 THEN NoFrame
                                ELSE FrameCopy(CapturedFrame(last_stored))
    /\ \A c \in Consumers :
          (consumer[c].pc = "idle" /\ cam_lock = {}) => ENABLED GetFrameAcquire(c)
    /\ \A c \in Consumers : consumer[c].pc = "copy" => ENABLED GetFrameCopy(c)
    /\ \A c \in Consumers : consumer[c].pc = "release" => ENABLED GetFrameReturn(c)
    /\ reader.pc = "store" => ENABLED ReaderStore

\* C7: after a failed capture that followed a stored frame, get_frame hands
\* out a copy of that stored frame
C7_PreviousFrameAfterFailedCapture ==
    \E c \in Consumers :
        /\ consumer[c].pc = "release"
        /\ reader.pc = "sleep"
        /\ last_stored >= 1
        /\ consumer[c].ret = FrameCopy(CapturedFrame(last_stored))

\* ------------------------------------------------- claims: next_digit
\* the candidate entries of a code file: its lines after the header line
Candidates(file) ==
    [i \in 1..(Len(file.lines) - 1) |-> Strip(file.lines[i + 1])]

\* C4: for a code file (header line and candidates), an iteration over the
\* offsets start, start + 1, ... returns the candidates from that offset on,
\* each once and in list order, whichever iteration (first or replay) it is,
\* and the request after the final entry returns 'done'
C4_IterationServesCandidatesInOrder ==
    (dg_file.exists /\ Len(dg_file.lines) >= 1
        /\ dg_start <= Len(Candidates(dg_file))) =>
    /\ Len(dg_served) <= Len(Candidates(dg_file)) - dg_start + 1
    /\ \A i \in 1..Len(dg_served) :
          dg_served[i] =
              IF dg_start + i <= Len(Candidates(dg_file))
              THEN Result("digit", Candidates(dg_file)[dg_start + i])
              ELSE Result("done", <<>>)

\* C4: a replay from offset 1 of a list of two or more candidates was served
\* to its end
C4_ReplayServedToTheEnd ==
    /\ dg_file.exists
    /\ Len(dg_file.lines) >= 3
    /\ dg_start = 1
    /\ Len(dg_served) = Len(dg_file.lines) - 1
    /\ dg_served[Len(dg_served)].kind = "done"

\* ----------------------------------------------- claims: type_numbers
\* C9: a call with an absent device ends in FileNotFoundError, a call with an
\* empty input or an input holding a character other than 0-9 ends in
\* ValueError, and in both cases no report was written
C9_BadCallsRejectedBeforeAnyWrite ==
    hid_pc = "done" =>
        /\ ~hid_device_exists =>
              (hid_outcome = "FileNotFoundError" /\ hid_reports = <<>>)
        /\ (hid_device_exists /\
              (hid_s = <<>> \/ \E i \in 1..Len(hid_s) : hid_s[i] \notin AsciiDigits)) =>
              (hid_outcome = "ValueError" /\ hid_reports = <<>>)

\* ------------------------------------------------ claims: get_timeout
\* the characters 0-9 of a text, in order
AsciiDigitsOf(text) ==
    SelectSeq(IF text.none THEN <<>> ELSE text.chars, LAMBDA ch : ch \in AsciiDigits)

\* C10: get_timeout returns the integer formed by the digit characters of the
\* OCR text in order, and returns None exactly when the text holds no digit
C10_TimeoutIsDigitFilteredInteger ==
    timeout_result.kind # "not called" =>
        IF AsciiDigitsOf(ocr_text) = <<>>
        THEN timeout_result.kind = "None"
        ELSE timeout_result = [kind |-> "int", val |-> IntOf(AsciiDigitsOf(ocr_text))]

\* ------------------------------------------- claims: relais.py, setup
\* C11: a setup() call that initializes the module with pin None for servo k
\* leaves that servo unconfigured, and a trigger on an unconfigured servo
\* returns False and creates no worker thread
C11_NonePinLeavesServoUnconfigured ==
    [][\A c \in Callers, k \in ServoKeys :
          /\ (\E args \in SetupArgs :
                  /\ args[k] = None
                  /\ ~gpio_initialized
                  /\ Setup(c, args)) => servos'[k] = NoServo
          /\ (TriggerBegin(c, k) /\ servos'[k] = NoServo) =>
                  (caller'[c].ret = "False" /\ wk' = wk)]_vars

\* C12: a trigger hands the press sequence the rest angle that _REST_ANGLE
\* holds at the time of the call (the angle last given to set_rest_angle,
\* clamped), and the press sequence ends with its servo at the rest angle it
\* was handed
C12_PressReturnsToCurrentRestAngle ==
    [][/\ \A t \in ThreadIds :
             (wk[t].pc = "unborn" /\ wk'[t].pc = "created") =>
                 wk'[t].rest = REST_ANGLE
       /\ \A t \in ThreadIds :
             (wk[t].pc = "rest2" /\ wk'[t].pc = "discard") =>
                 servos'[wk[t].key].angle = ClampAngle(wk[t].rest)]_vars

\* --------------------------------------------- claims: clear_cache
\* C13: clear_cache() issues every one of its scripted steps, in order, and
\* returns to its caller
C13_ClearCacheRunsToCompletion ==
    rc_outcome \notin {"idle", "running"} =>
        (rc_outcome = "returned" /\ rc_issued = ClearCacheScript)

\* ------------------------------------------ claims: the controller
\* C14: an Info_text that reads exactly the wrong-code message is classified
\* as Failed, and while that verdict stands (until the next candidate is
\* fetched) the recovery sequence has been invoked exactly once and the
\* controller is recovering or back at FetchCandidate
C14_FailedRecoversOnceBeforeNextFetch ==
    /\ ctl_obs.text = PyStr(wrong_code) => ctl_obs.wrong
    /\ ctl_verdict = "Failed" =>
          /\ ctl_obs.text = PyStr(wrong_code)
          /\ ctl_recoveries = 1
          /\ ctl_pc \in {"Recover", "FetchCandidate"}

\* the request that served the last line of the list for length 4
ServedLastLineOf4(i) ==
    /\ ctl_requests[i].count = 4
    /\ ctl_requests[i].result.kind = "digit"
    /\ ctl_requests[i].offset + 2 = Len(ctl_files[4].lines)

\* C19: once the last line of the list for length 4 was served, the attempt
\* on it is under way or has found the goal, or the controller is back at
\* FetchCandidate, or the request after the 'done' answer is made for length
\* 5 at offset 0
C19_AfterLength4ComesLength5 ==
    \A i \in 1..Len(ctl_requests) :
        ServedLastLineOf4(i) =>
            \/ /\ i = Len(ctl_requests)
               /\ ctl_pc \in {"Enter", "Observe", "Recover", "Succeeded", "FetchCandidate"}
            \/ /\ i + 1 = Len(ctl_requests)
               /\ ctl_requests[i + 1].result.kind = "done"
               /\ ctl_pc = "FetchCandidate" /\ ctl_count = 5 /\ ctl_offset = 0
            \/ /\ i + 2 <= Len(ctl_requests)
               /\ ctl_requests[i + 2].count = 5
               /\ ctl_requests[i + 2].offset = 0

\* C20: check_swipe returns True exactly when the template check of the
\* Swipe region reported a match
C20_CheckSwipeIsTheTemplateMatch ==
    ctl_obs # NoObservation =>
        (ctl_obs.swipe <=> ctl_obs.check = PyBool(TRUE))

\* --------------------------------------- claims: Server.py, status
\* C15: a goal report with a non-empty value (one Python holds true) leaves
\* running = false and the goal message 'Found it: <value>!!'; a goal report
\* without such a value leaves the whole status unchanged; and running goes
\* from false to true by a start control only
C15_GoalHaltsUntilStart ==
    [][st_log' # st_log =>
          LET req == st_log'[Len(st_log')]
          IN /\ (req.op = "goal" /\ Truthy(req.val)) =>
                    (~state'.running /\ state'.goal_msg = GoalMsg(req.val))
             /\ (req.op = "goal" /\ ~Truthy(req.val)) => state' = state
             /\ (~state.running /\ state'.running) => req.op = "start"]_vars

\* C15: the loop was started, a goal was reported, and the loop is halted
C15_GoalReportedWhileRunning ==
    /\ Len(st_log) = 2
    /\ st_log[1].op = "start"
    /\ st_log[2] = Request("goal", PyStr("1234"))
    /\ ~state.running
    /\ state.goal_msg = GoalMsg(PyStr("1234"))

\* ------------------------------------- claims: cam.py, scenario 1
\* C16: for a window of two or more frames, STABLE_FRAMES - 1 readings of
\* STATE_A followed by one reading of STATE_B emit no state-change event
C16_SwitchBeforeFullWindowIsSilent ==
    (/\ STABLE_FRAMES >= 2
     /\ Len(pushed) = STABLE_FRAMES
     /\ \A i \in 1..(STABLE_FRAMES - 1) : pushed[i] = "STATE_A"
     /\ pushed[STABLE_FRAMES] = "STATE_B") => events = <<>>

\* C16: with the window size cam.py configures, two readings of STATE_A were
\* followed by STATE_B
C16_TwoAThenB ==
    /\ STABLE_FRAMES = ConfiguredStableFrames
    /\ pushed = <<"STATE_A", "STATE_A", "STATE_B">>
    /\ state_history = pushed

\* -------------------------------- claims: Server.py, CameraThread
\* C17: once stop() has cleared the running flag the flag stays cleared, the
\* reader's next test of the flag ends its loop (so at most the iteration
\* under way is finished), and under fair scheduling the reader terminates
C17_ReaderStopsAfterStop ==
    /\ [][~cam_running => ~cam_running']_vars
    /\ [][(~cam_running /\ reader.pc = "loop" /\ reader'.pc # "loop") =>
              reader'.pc = "exit"]_vars
    /\ (~cam_running) ~> (reader.pc = "exit")

\* C17: the reader has terminated after stop() although no capture succeeded
C17_ReaderExitedAfterFailedCaptures ==
    /\ ~cam_running
    /\ reader.pc = "exit"
    /\ cap = "released"
    /\ ncaptures = 0

\* C18: no capture is attempted on a device that could not be opened
C18_NoCaptureLoopOnUnopenedDevice ==
    cap = "unopened" => reader.pc \notin {"read", "sleep", "lock", "store"}

\* ------------------------------------------------ claims: calibrate.py
\* C21: every rectangle the tool has stored in the configuration, the OCR
\* region and each named region, has width > 0 and height > 0
C21_StoredRectanglesHaveArea ==
    /\ cfg.OCR_ROI[3] > 0 /\ cfg.OCR_ROI[4] > 0
    /\ \A n \in RegionNames :
          cfg.REGIONS[n] # NoSel => (cfg.REGIONS[n][3] > 0 /\ cfg.REGIONS[n][4] > 0)

\* ------------------------ claims: Server.py, the latest-frame slot
\* C22: the reader's replacement of the latest-frame slot and a consumer's
\* copy-out never execute at the same time (at most one thread is inside a
\* block guarded by the lock), and the value a consumer has copied is the
\* whole frame the slot holds: a copy of one captured frame, or None when
\* nothing was captured yet
C22_StoreAndCopyExclude ==
    /\ Cardinality({c \in Consumers : consumer[c].pc \in {"copy", "release"}})
         + (IF reader.pc = "store" THEN 1 ELSE 0) <= 1
    /\ \A c \in Consumers :
          consumer[c].pc = "release" =>
             /\ consumer[c].ret =
                   (IF cam_frame = NoFrame THEN NoFrame ELSE FrameCopy(cam_frame))
             /\ \/ consumer[c].ret = NoFrame
                \/ \E n \in 1..ncaptures :
                      consumer[c].ret = FrameCopy(CapturedFrame(n))

\* C22: the reader holds a newer frame and waits for the lock while a
\* consumer copies the frame stored before, and another consumer waits too
C22_ReaderWaitsWhileConsumerCopies ==
    /\ reader.pc = "lock"
    /\ reader.frame = CapturedFrame(2)
    /\ cam_frame = CapturedFrame(1)
    /\ consumer["k1"].pc = "copy"
    /\ consumer["k2"].pc = "idle"

\* ------------------------------------ claims: cam.py, the window
\* C23: a push emits a state-change event if and only if the window then
\* holds STABLE_FRAMES readings that are all equal and differ from the last
\* announced state; the event carries that value and it becomes the last
\* announced state; on every other push the last announced state is
\* unchanged; the window holds the newest readings, at most STABLE_FRAMES
C23_PushAnnouncesExactlyNewStableState ==
    [][pushed' # pushed =>
          LET h == state_history'
              n == Len(pushed')
              held == IF n < STABLE_FRAMES THEN n ELSE STABLE_FRAMES
              full_equal == /\ Len(h) = STABLE_FRAMES
                            /\ \A i, j \in 1..Len(h) : h[i] = h[j]
              emits == events' # events
          IN /\ emits <=> (full_equal /\ h[1] # last_stable_state)
             /\ emits => /\ Len(events') = Len(events) + 1
                         /\ SubSeq(events', 1, Len(events)) = events
                         /\ events'[Len(events')].state = h[1]
                         /\ last_stable_state' = h[1]
             /\ ~emits => last_stable_state' = last_stable_state
             /\ Len(h) <= STABLE_FRAMES
             /\ h = SubSeq(pushed', n - held + 1, n)]_vars

\* C23: with a window of two, a second state was announced by a push that
\* dropped older readings from the window
C23_SecondAnnouncementAfterDrop ==
    /\ STABLE_FRAMES = 2
    /\ pushed = <<"STATE_A", "STATE_A", "STATE_B", "STATE_B">>
    /\ Len(events) = 2
    /\ events[2].state = "STATE_B"
    /\ last_stable_state = "STATE_B"

\* --------------------------------- claims: relais.py, press sequence
\* C24: within a press sequence the servo is commanded to no angle other
\* than the press angle and the rest angle, and the command that ends the
\* sequence and releases the lock is the rest angle
C24_PressCommandsOnlyPressAndRest ==
    [][\A t \in ThreadIds :
          (InPress(t) /\ wk'[t].pc # wk[t].pc) =>
             /\ servos'[wk[t].key].angle
                   \in {ClampAngle(wk[t].press), ClampAngle(wk[t].rest)}
             /\ locks'[wk[t].key] # locks[wk[t].key] =>
                   servos'[wk[t].key].angle = ClampAngle(wk[t].rest)]_vars

\* ------------------------------ claims: clear_cache, order of presses
\* C25: during the recovery sequence a scripted step starts only when the
\* press of every step before it has finished: at no time are two scripted
\* presses under way, and the cleanup step finds no press under way
C25_ScriptedPressesDoNotOverlap ==
    /\ Cardinality({t \in ThreadIds : wk[t].pc \notin {"unborn", "done"}}) <= 1
    /\ (rc_issued # <<>> /\ rc_issued[Len(rc_issued)].op = "cleanup") =>
          \A t \in ThreadIds : wk[t].pc \in {"unborn", "done"}

\* ------------------------------- claims: type_numbers, the reports
\* the 8-byte key-down report of HID usage u, and the all-zero release report
KeyDownReport(u) == <<0, 0, u, 0, 0, 0, 0, 0>>
ReleaseReport == <<0, 0, 0, 0, 0, 0, 0, 0>>

\* HID keyboard usages of the digit keys; Enter's usage is 40 (0x28)
UsageOfDigit(ch) ==
    CASE ch = "1" -> 30 [] ch = "2" -> 31 [] ch = "3" -> 32 [] ch = "4" -> 33
      [] ch = "5" -> 34 [] ch = "6" -> 35 [] ch = "7" -> 36 [] ch = "8" -> 37
      [] ch = "9" -> 38 [] ch = "0" -> 39

\* C26: for a non-empty string of the digits 0-9 and a device that exists,
\* the reports written are, digit by digit and in order, the digit's key-down
\* report followed by the release report; a finished call has written every
\* digit and then Enter's key-down and release exactly when press_enter;
\* every key-down report is followed by a release report
C26_ReportsAreDigitPressesThenEnter ==
    (/\ hid_pc \in {"typing", "done"}
     /\ hid_device_exists
     /\ Len(hid_s) > 0
     /\ \A i \in 1..Len(hid_s) : hid_s[i] \in AsciiDigits) =>
        /\ hid_pc = "typing" => Len(hid_reports) = 2 * hid_i
        /\ \A j \in 1..hid_i :
              /\ hid_reports[2 * j - 1] = KeyDownReport(UsageOfDigit(hid_s[j]))
              /\ hid_reports[2 * j] = ReleaseReport
        /\ hid_pc = "done" =>
              /\ hid_outcome = "ok"
              /\ hid_i = Len(hid_s)
              /\ Len(hid_reports) = 2 * Len(hid_s) + (IF hid_press_enter THEN 2 ELSE 0)
              /\ hid_press_enter =>
                    /\ hid_reports[Len(hid_reports) - 1] = KeyDownReport(40)
                    /\ hid_reports[Len(hid_reports)] = ReleaseReport
        /\ \A i \in 1..Len(hid_reports) :
              hid_reports[i] # ReleaseReport =>
                 (i < Len(hid_reports) /\ hid_reports[i + 1] = ReleaseReport)

\* C26: '10' was typed with Enter: six reports were written
C26_TypedOneZeroEnter ==
    /\ hid_pc = "done"
    /\ hid_outcome = "ok"
    /\ hid_s = <<"1", "0">>
    /\ hid_press_enter
    /\ Len(hid_reports) = 6

\* ------------------------------------- claims: relais.py, cleanup
\* C27: a worker thread never initializes the GPIO hardware, and while the
\* hardware is not initialized (a cleanup has returned and neither setup nor
\* a trigger was called since) no worker commands a servo
C27_NothingMovesAfterCleanup ==
    [][\A t \in ThreadIds :
          (wk'[t] # wk[t] /\ wk[t].pc \notin {"unborn", "created"}) =>
             /\ gpio_initialized' = gpio_initialized
             /\ ~gpio_initialized => servos' = servos]_vars

\* --------------------------------- claims: Server.py, stop()
\* C28: once stop() has released the camera handle the reader performs no
\* read on it
C28_NoReadAfterRelease ==
    [][cap = "released" => ~(reader.pc = "read" /\ reader'.pc # "read")]_vars

\* ------------------------------- claims: next_digit past the end
\* C29: for a code file that exists, a request at an offset at or beyond the
\* number of candidates (the lines after the header line) answers 'done'; for
\* a file that does not exist every request answers False
C29_PastTheEndIsDone ==
    dg_probe # NoProbe =>
        IF ~dg_file.exists THEN dg_probe.result.kind = "False"
        ELSE LET candidates == IF Len(dg_file.lines) > 0
                               THEN Len(dg_file.lines) - 1 ELSE 0
             IN dg_probe.line >= candidates => dg_probe.result.kind = "done"

\* ------------------------------ claims: Server.py, control endpoints
\* C30: start leaves running = true and paused = false, stop leaves both
\* false, pause leaves paused = true and resume paused = false with running
\* as it was; none of the four changes the current code, the progress
\* counters or the goal message
C30_ControlsChangeOnlyRunFlags ==
    [][st_log' # st_log =>
          LET req == st_log'[Len(st_log')]
          IN req.op \in {"start", "stop", "pause", "resume"} =>
                /\ state'.current_digits = state.current_digits
                /\ state'.line_progress = state.line_progress
                /\ state'.num_lines = state.num_lines
                /\ state'.goal_msg = state.goal_msg
                /\ req.op = "start" => (state'.running /\ ~state'.paused)
                /\ req.op = "stop" => (~state'.running /\ ~state'.paused)
                /\ req.op = "pause" =>
                      (state'.paused /\ state'.running = state.running)
                /\ req.op = "resume" =>
                      (~state'.paused /\ state'.running = state.running)]_vars

\* C30: the loop was started again after a goal report and paused: the goal
\* message is still there
C30_StartedAndPausedAfterGoal ==
    /\ Len(st_log) = 3
    /\ st_log[1] = Request("goal", PyStr("1234"))
    /\ st_log[2].op = "start"
    /\ st_log[3].op = "pause"
    /\ state.running /\ state.paused
    /\ state.goal_msg = GoalMsg(PyStr("1234"))

====
